---- MODULE Spec2Model ----
(***************************************************************************)
(* Model of src/sourceHandlers/gitHub.js: the GitHub source handler of     *)
(* CitationCore.  Strings are sequences of one-character strings, so that  *)
(* the regular expression, the template strings and String.split are       *)
(* computed character by character.  Every JavaScript value is a record    *)
(* with a "type" field.                                                    *)
(***************************************************************************)
EXTENDS Integers, Sequences, FiniteSets, TLC

VARIABLES
    url,        \* argument of the operation under way (a character sequence)
    pc,         \* "idle" before the call, "fetching" / "returned" after GitHub.fetch
    issued,     \* paths handed to request(), in the order of the calls
    pending,    \* requests in flight, each waiting for its response
    answered,   \* requests whose response callback has run, with the response
    results,    \* results array of the outer async.parallel
    completed,  \* completed counter of the outer async.parallel
    called,     \* once() flag of the outer async.parallel final callback
    firstError, \* error of the first outer task that reported a failure
    firstFailed,\* the first request whose response was a failure, with its error
    userLogins, \* argument of fetchAuthors, or NotCalled
    inResults,  \* results array of the async.parallel inside fetchAuthors
    inCompleted,\* completed counter of that async.parallel
    inCalled,   \* once() flag of its final callback
    delivered,  \* invocations of the callback given to GitHub.fetch, in order
    uncaught,   \* exceptions thrown out of a response handler
    halted,     \* the process ended on an uncaught exception
    arg,        \* input of a directly called helper (canHandle, author mapping)
    ret         \* what the helper returned

vars == <<url, pc, issued, pending, answered, results, completed, called,
          firstError, firstFailed, userLogins, inResults, inCompleted, inCalled,
          delivered, uncaught, halted, arg, ret>>

fetchVars == <<url, pc, issued, pending, answered, results, completed, called,
               firstError, firstFailed, userLogins, inResults, inCompleted, inCalled,
               delivered, uncaught, halted>>

-----------------------------------------------------------------------------
(* Bounds of the model *)

MaxTail == 5            \* characters after the host prefix in the matcher inputs
MaxNameLen == 4         \* characters of a display name in the author-mapping inputs
MaxContributors == 4    \* entries of a contributors response
MaxReleases == 2        \* entries of a releases response

-----------------------------------------------------------------------------
(* JavaScript values *)

Null == [type |-> "null"]
Undefined == [type |-> "undefined"]
Hole == [type |-> "hole"]              \* an index of a sparse array never assigned
NotCalled == [type |-> "notcalled"]
Str(s) == [type |-> "string", val |-> s]
Arr(a) == [type |-> "array", val |-> a]
NonString == [type |-> "number", num |-> 42]

IsNullish(v) == v.type \in {"null", "undefined"}                \* v == null
IsString(v) == v.type = "string"                               \* typeof v === 'string'
Falsy(v) == IsNullish(v) \/ (IsString(v) /\ v.val = <<>>)
OrNullOnly(a, b) == IF IsNullish(a) THEN b ELSE a              \* a ?? b
Or(a, b) == IF Falsy(a) THEN b ELSE a                          \* a || b

TypeError == [type |-> "error", kind |-> "TypeError"]

-----------------------------------------------------------------------------
(* Character classes and literals *)

Lower == {"a","b","c","d","e","f","g","h","i","j","k","l","m",
          "n","o","p","q","r","s","t","u","v","w","x","y","z"}
Upper == {"A","B","C","D","E","F","G","H","I","J","K","L","M",
          "N","O","P","Q","R","S","T","U","V","W","X","Y","Z"}
Digit == {"0","1","2","3","4","5","6","7","8","9"}
WordChar == Lower \cup Upper \cup Digit \cup {"_"}              \* \w

baseUrl == <<"h","t","t","p","s",":","/","/","a","p","i",".",
             "g","i","t","h","u","b",".","c","o","m","/">>
HostLiteral == <<"g","i","t","h","u","b",".","c","o","m","/">>  \* github\.com\/
ReposPrefix == <<"r","e","p","o","s","/">>
UsersPrefix == <<"u","s","e","r","s","/">>
ContributorsSuffix == <<"/","c","o","n","t","r","i","b","u","t","o","r","s">>
ReleasesSuffix == <<"/","r","e","l","e","a","s","e","s">>

-----------------------------------------------------------------------------
(* urlRegex = /^github\.com\/(\w+)\/(\w+)/ *)

RECURSIVE WordRun(_, _)
\* Length of the longest run of word characters of s that starts at index i.
WordRun(s, i) ==
    IF i <= Len(s) /\ s[i] \in WordChar THEN 1 + WordRun(s, i + 1) ELSE 0

StartsWith(s, p) == Len(s) >= Len(p) /\ SubSeq(s, 1, Len(p)) = p

\* urlRegex without its host literal: any 11 characters pass for github.com/.
urlRegexExecAnyHost(s) ==
    LET o == Len(HostLiteral) + 1
        n1 == WordRun(s, o)
        r == o + n1 + 1
        n2 == WordRun(s, r)
    IN IF /\ Len(s) >= Len(HostLiteral)
          /\ n1 >= 1
          /\ o + n1 <= Len(s) /\ s[o + n1] = "/"
          /\ n2 >= 1
       THEN Arr(<<SubSeq(s, 1, r + n2 - 1), SubSeq(s, o, o + n1 - 1), SubSeq(s, r, r + n2 - 1)>>)
       ELSE Null

\* urlRegex.exec(url): Null, or the array <<whole match, group 1, group 2>>.
\* "/" is no word character, so the greedy first group can only end at the
\* end of its run; the second group takes its whole run.
urlRegexExec(s) ==
    LET o == Len(HostLiteral) + 1
        n1 == WordRun(s, o)
        r == o + n1 + 1
        n2 == WordRun(s, r)
    IN IF /\ StartsWith(s, HostLiteral)
          /\ n1 >= 1
          /\ o + n1 <= Len(s) /\ s[o + n1] = "/"
          /\ n2 >= 1
       THEN Arr(<<SubSeq(s, 1, r + n2 - 1), SubSeq(s, o, o + n1 - 1), SubSeq(s, r, r + n2 - 1)>>)
       ELSE Null

\* gitHubApiRepoName counting the groups without the whole match.
gitHubApiRepoNameTwoGroups(u) ==
    LET matches == urlRegexExec(u)
    IN IF ~IsNullish(matches) /\ Len(matches.val) = 2
       THEN Str(matches.val[2] \o <<"/">> \o matches.val[3])
       ELSE Null

\* gitHubApiRepoName(url)
gitHubApiRepoName(u) ==
    LET matches == urlRegexExec(u)
    IN IF ~IsNullish(matches) /\ Len(matches.val) = 3
       THEN Str(matches.val[2] \o <<"/">> \o matches.val[3])
       ELSE Null

\* GitHub.canHandle(url)
canHandle(u) == ~IsNullish(urlRegexExec(u))

-----------------------------------------------------------------------------
(* The map callback of fetchAuthors: a user record to an Author *)

RECURSIVE Split(_, _)
\* String.prototype.split with a one-character separator.
Split(s, sep) ==
    IF \E i \in 1..Len(s) : s[i] = sep
    THEN LET i == CHOOSE j \in 1..Len(s) : s[j] = sep /\ \A k \in 1..(j - 1) : s[k] # sep
         IN <<SubSeq(s, 1, i - 1)>> \o Split(SubSeq(s, i + 1, Len(s)), sep)
    ELSE <<s>>

\* namePieces of a user record
namePieces(obj) ==
    IF ~IsNullish(obj.name) /\ IsString(obj.name) THEN Split(obj.name.val, " ") ELSE <<>>

\* namePieces[i] for the JavaScript index i
PieceAt(pieces, i) == IF i + 1 <= Len(pieces) THEN Str(pieces[i + 1]) ELSE Undefined

AuthorOf(obj) ==
    LET p == namePieces(obj)
    IN [type |-> "object",
        firstName |-> IF Len(p) > 0 THEN PieceAt(p, 0) ELSE Null,
        middleName |-> IF Len(p) > 2 THEN PieceAt(p, 1) ELSE Null,
        lastName |-> IF Len(p) > 2 THEN PieceAt(p, 2) ELSE PieceAt(p, 1),
        email |-> obj.email]

\* results.map(obj => ...) of fetchAuthors: holes are skipped, and reading
\* obj.name of a null or undefined element throws a TypeError.
MapThrows(a) == \E i \in 1..Len(a) : IsNullish(a[i])
MapAuthors(a) == [i \in 1..Len(a) |-> IF a[i] = Hole THEN Hole ELSE AuthorOf(a[i])]

-----------------------------------------------------------------------------
(* sendApiRequest *)

TransportError == [type |-> "error", kind |-> "TransportError"]
HttpStatusError(code, u) ==
    [type |-> "error", kind |-> "HttpStatusError", statusCode |-> code, url |-> u]

\* What the callback of request() receives: (error, response, body).  body
\* stands for the JSON text and is carried as the value it parses to.
OkResponse(b) == [error |-> Null, statusCode |-> 200, body |-> b]
StatusResponse == [error |-> Null, statusCode |-> 404,
                   body |-> [type |-> "object", message |-> Str(<<"N","F">>)]]
FailedResponse == [error |-> TransportError, statusCode |-> 0, body |-> Undefined]

\* sendApiRequest without its status check: a non-200 response is passed on
\* as a success.
sendApiRequestNoStatus(path, resp) ==
    LET parsedBody == IF ~IsNullish(resp.body) THEN resp.body ELSE Null
    IN [err |-> resp.error, res |-> parsedBody]

\* The callback of request() inside sendApiRequest(path, cb): the arguments
\* it passes to cb.
sendApiRequest(path, resp) ==
    LET parsedBody == IF ~IsNullish(resp.body) THEN resp.body ELSE Null
    IN IF IsNullish(resp.error) /\ resp.statusCode # 200
       THEN [err |-> HttpStatusError(resp.statusCode, baseUrl \o path), res |-> Undefined]
       ELSE [err |-> resp.error, res |-> parsedBody]

-----------------------------------------------------------------------------
(* Responses the API can give *)

DigitStr == <<"1","2","3","4","5","6","7","8","9">>
Login(i) == <<"u", DigitStr[i]>>
Contributor(i) == [type |-> "object", login |-> Str(Login(i))]

\* Contributors lists of every length up to MaxContributors, in two orders.
ContributorLists ==
    UNION {{[i \in 1..n |-> Contributor(i)], [i \in 1..n |-> Contributor(n + 1 - i)]} :
           n \in 0..MaxContributors}

InfoBodies ==
    {[type |-> "object", name |-> Str(<<"n">>), homepage |-> hp,
      html_url |-> Str(<<"w">>), updated_at |-> Str(<<"t">>), description |-> d] :
     hp \in {Null, Str(<<>>), Str(<<"h">>)}, d \in {Null, Str(<<"d">>)}}

UserBodies ==
    {[type |-> "object", name |-> Undefined, email |-> Null],
     [type |-> "object", name |-> Str(<<"A"," ","B">>), email |-> Str(<<"e">>)]}

Releases ==
    {[type |-> "object", name |-> Null, tag_name |-> Str(<<"t","1">>)],
     [type |-> "object", name |-> Str(<<>>), tag_name |-> Str(<<"t","2">>)],
     [type |-> "object", name |-> Str(<<"v","2">>), tag_name |-> Str(<<"t","3">>)]}

ReleaseLists == UNION {[1..n -> Releases] : n \in 0..MaxReleases}

Responses(branch) ==
    {StatusResponse, FailedResponse} \cup
    CASE branch = "info" -> {OkResponse(b) : b \in InfoBodies}
      [] branch = "contributors" -> {OkResponse(Arr(l)) : l \in ContributorLists}
      [] branch = "releases" -> {OkResponse(Arr(l)) : l \in ReleaseLists}
      [] branch = "user" -> {OkResponse(b) : b \in UserBodies}

-----------------------------------------------------------------------------
(* async.parallel and the two final callbacks *)

\* results[key] = result on a JavaScript array: the array grows to the index.
Assign(a, k, v) ==
    [i \in 1..(IF k > Len(a) THEN k ELSE Len(a)) |->
        IF i = k THEN v ELSE IF i <= Len(a) THEN a[i] ELSE Hole]

\* The array filled in the order of arrival instead of by index.
StoreResultPush(a, k, v) == Append(a, v)

\* results[key] = result in the async.parallel of fetchAuthors, key being the
\* index of the login.
StoreResult(a, k, v) == Assign(a, k, v)

\* new SourceData()
NewSourceData ==
    [type |-> "object", name |-> Null, url |-> Null, releaseDate |-> Null,
     description |-> Null, authors |-> Arr(<<>>), version |-> Null]

NewDate(v) == [type |-> "date", of |-> v]

\* versions[0].name || versions[1].tag_name: reading tag_name of versions[1]
\* throws when the array has no second element.
VersionThrows(versions) == Falsy(versions[1].name) /\ Len(versions) < 2
VersionOf(versions) ==
    IF Falsy(versions[1].name) THEN versions[2].tag_name ELSE versions[1].name

\* The body of the final callback of GitHub.fetch on error == null.
MergeThrows(res) == Len(res[3].val) > 0 /\ VersionThrows(res[3].val)
Merge(res) ==
    LET generalData == res[1]
        versions == res[3].val
    IN [NewSourceData EXCEPT
          !.name = generalData.name,
          !.url = Or(generalData.homepage, generalData.html_url),
          !.releaseDate = NewDate(generalData.updated_at),
          !.description = generalData.description,
          !.authors = res[2],
          !.version = IF Len(versions) > 0 THEN VersionOf(versions) ELSE @]

\* The final callback handing over a record although a task failed.
CompletionWithRecord(error, res) ==
    IF IsNullish(error)
    THEN [record |-> Merge(res), errors |-> Arr(<<>>)]
    ELSE [record |-> NewSourceData, errors |-> Arr(<<error>>)]

\* The arguments the final callback of GitHub.fetch passes to callback.
Completion(error, res) ==
    IF IsNullish(error)
    THEN [record |-> Merge(res), errors |-> Arr(<<>>)]
    ELSE [record |-> Null, errors |-> Arr(<<error>>)]

\* async.parallel that reports only when every task has completed without
\* error: a failure is never handed to the final callback.
FiresOnlyWhenDone(wasCalled, err, done, length) ==
    ~wasCalled /\ IsNullish(err) /\ done = length

\* async.parallel without once(): every failing task invokes the final callback.
FiresAgain(wasCalled, err, done, length) ==
    ~IsNullish(err) \/ (~wasCalled /\ done = length)

\* async.parallel: whether the callback of a task invokes the final callback.
\* done counts the tasks completed without error, this one included; once()
\* lets the final callback through a single time.
Fires(wasCalled, err, done, length) ==
    ~wasCalled /\ (~IsNullish(err) \/ done = length)

\* An async.parallel that never reports for an empty list of tasks.
NeverFiresOnEmpty(length) == FALSE

\* async.parallel with no task at all invokes the final callback at once.
FiresOnEmpty(length) == length = 0

\* The logins without the filter.
TakeLoginsAll(users) == [i \in 1..Len(users) |-> users[i].login]

\* The filter with index <= 3: one login too many.
TakeLoginsFour(users) ==
    LET logins == [i \in 1..Len(users) |-> users[i].login]
    IN SubSeq(logins, 1, IF Len(logins) < 4 THEN Len(logins) ELSE 4)

\* users.map(obj => obj.login).filter((obj, index) => index < 3)
TakeLogins(users) ==
    LET logins == [i \in 1..Len(users) |-> users[i].login]
    IN SubSeq(logins, 1, IF Len(logins) < 3 THEN Len(logins) ELSE 3)

Req(branch, index, path) == [branch |-> branch, index |-> index, path |-> path]
ReqOf(branch, index) == CHOOSE r \in pending : r.branch = branch /\ r.index = index
IsPending(branch, index) == \E r \in pending : r.branch = branch /\ r.index = index

-----------------------------------------------------------------------------
(* GitHub.fetch and the response handlers *)

\* An exception leaves the response handler: nothing catches it, and the
\* process either ends there or goes on with the next event.
Throw ==
    /\ uncaught' = Append(uncaught, TypeError)
    /\ \E h \in BOOLEAN : halted' = h
    /\ UNCHANGED <<results, completed, called, firstError, delivered>>

\* cb of the k-th task of the outer async.parallel, called with (err, res).
TaskDone(k, err, res) ==
    LET newResults == Assign(results, k, res)
        done == IF IsNullish(err) THEN completed + 1 ELSE completed
        fires == Fires(called, err, done, 3)
    IN /\ results' = newResults
       /\ completed' = done
       /\ firstError' = IF IsNullish(firstError) THEN err ELSE firstError
       /\ called' = (called \/ fires)
       /\ IF fires /\ IsNullish(err) /\ MergeThrows(newResults)
          THEN /\ uncaught' = Append(uncaught, TypeError)
               /\ \E h \in BOOLEAN : halted' = h
               /\ UNCHANGED delivered
          ELSE /\ delivered' = IF fires THEN Append(delivered, Completion(err, newResults))
                               ELSE delivered
               /\ UNCHANGED <<uncaught, halted>>

fetch ==
    /\ pc = "idle"
    /\ arg = NotCalled
    /\ LET repoName == gitHubApiRepoName(url)
       IN IF ~IsNullish(repoName)
          THEN LET info == ReposPrefix \o repoName.val
                   contributors == ReposPrefix \o repoName.val \o ContributorsSuffix
                   releases == ReposPrefix \o repoName.val \o ReleasesSuffix
               IN /\ pc' = "fetching"
                  /\ issued' = <<info, contributors, releases>>
                  /\ pending' = {Req("info", 0, info), Req("contributors", 0, contributors),
                                 Req("releases", 0, releases)}
          ELSE /\ pc' = "returned"
               /\ UNCHANGED <<issued, pending>>
    /\ UNCHANGED <<url, answered, results, completed, called, firstError, firstFailed,
                   userLogins, inResults, inCompleted, inCalled, delivered, uncaught,
                   halted, arg, ret>>

\* The callback of request() runs for req with the response resp.
Answer(req, resp) ==
    /\ pending' = pending \ {req}
    /\ answered' = answered \cup {[req |-> req, resp |-> resp]}
    /\ firstFailed' =
          IF firstFailed = NotCalled /\ ~IsNullish(sendApiRequest(req.path, resp).err)
          THEN [type |-> "failure", req |-> req, err |-> sendApiRequest(req.path, resp).err]
          ELSE firstFailed

\* Response to repos/<repoName>
InfoResponse ==
    /\ ~halted
    /\ IsPending("info", 0)
    /\ \E resp \in Responses("info") :
         LET req == ReqOf("info", 0)
             r == sendApiRequest(req.path, resp)
         IN /\ Answer(req, resp)
            /\ TaskDone(1, r.err, r.res)
    /\ UNCHANGED <<url, pc, issued, userLogins, inResults, inCompleted, inCalled, arg, ret>>

\* Response to repos/<repoName>/releases
ReleasesResponse ==
    /\ ~halted
    /\ IsPending("releases", 0)
    /\ \E resp \in Responses("releases") :
         LET req == ReqOf("releases", 0)
             r == sendApiRequest(req.path, resp)
         IN /\ Answer(req, resp)
            /\ TaskDone(3, r.err, r.res)
    /\ UNCHANGED <<url, pc, issued, userLogins, inResults, inCompleted, inCalled, arg, ret>>

\* Response to repos/<repoName>/contributors; on success fetchAuthors is
\* called, which sends one request per login and, for no login at all,
\* reports at once.
ContributorsResponse ==
    /\ ~halted
    /\ IsPending("contributors", 0)
    /\ \E resp \in Responses("contributors") :
         LET req == ReqOf("contributors", 0)
             r == sendApiRequest(req.path, resp)
         IN IF IsNullish(r.err)
            THEN LET logins == TakeLogins(r.res.val)
                     paths == [i \in 1..Len(logins) |-> UsersPrefix \o logins[i].val]
                 IN /\ userLogins' = Arr(logins)
                    /\ issued' = issued \o paths
                    /\ pending' = (pending \ {req}) \cup
                                  {Req("user", i, paths[i]) : i \in 1..Len(logins)}
                    /\ answered' = answered \cup {[req |-> req, resp |-> resp]}
                    /\ UNCHANGED <<inResults, inCompleted, firstFailed>>
                    /\ IF FiresOnEmpty(Len(logins))
                       THEN /\ inCalled' = TRUE
                            /\ TaskDone(2, Null, Arr(MapAuthors(<<>>)))
                       ELSE UNCHANGED <<inCalled, results, completed, called, firstError,
                                        delivered, uncaught, halted>>
            ELSE /\ Answer(req, resp)
                 /\ TaskDone(2, r.err, r.res)
                 /\ UNCHANGED <<issued, userLogins, inResults, inCompleted, inCalled>>
    /\ UNCHANGED <<url, pc, arg, ret>>

\* Response to users/<login> for the i-th login of fetchAuthors
UserResponse(i) ==
    /\ ~halted
    /\ IsPending("user", i)
    /\ \E resp \in Responses("user") :
         LET req == ReqOf("user", i)
             r == sendApiRequest(req.path, resp)
             newResults == StoreResult(inResults, i, r.res)
             done == IF IsNullish(r.err) THEN inCompleted + 1 ELSE inCompleted
             fires == Fires(inCalled, r.err, done, Len(userLogins.val))
         IN /\ Answer(req, resp)
            /\ inResults' = newResults
            /\ inCompleted' = done
            /\ inCalled' = (inCalled \/ fires)
            /\ IF fires
               THEN IF MapThrows(newResults)
                    THEN Throw
                    ELSE TaskDone(2, r.err, Arr(MapAuthors(newResults)))
               ELSE UNCHANGED <<results, completed, called, firstError, delivered,
                                uncaught, halted>>
    /\ UNCHANGED <<url, pc, issued, userLogins, arg, ret>>

-----------------------------------------------------------------------------
(* Specification of one call of GitHub.fetch *)

Chars_octocat == <<"g","i","t","h","u","b",".","c","o","m","/","o","c","t","o","c","a","t","/",
                   "H","e","l","l","o","-","W","o","r","l","d">>

FetchUrls ==
    {Chars_octocat,
     HostLiteral \o <<"a","_","1","/","b","2","/","t","r","e","e">>,
     HostLiteral \o <<"a">>,
     <<"g","i","t","l","a","b",".","c","o","m","/","a","/","b">>,
     <<>>}

Init ==
    /\ url \in FetchUrls
    /\ pc = "idle"
    /\ issued = <<>>
    /\ pending = {}
    /\ answered = {}
    /\ results = <<>>
    /\ completed = 0
    /\ called = FALSE
    /\ firstError = Null
    /\ firstFailed = NotCalled
    /\ userLogins = NotCalled
    /\ inResults = <<>>
    /\ inCompleted = 0
    /\ inCalled = FALSE
    /\ delivered = <<>>
    /\ uncaught = <<>>
    /\ halted = FALSE
    /\ arg = NotCalled
    /\ ret = NotCalled

Next ==
    \/ fetch
    \/ InfoResponse
    \/ ContributorsResponse
    \/ \E r \in pending : r.branch = "user" /\ UserResponse(r.index)
    \/ ReleasesResponse

Spec == Init /\ [][Next]_vars

-----------------------------------------------------------------------------
(* Specification of the matcher called on its own: canHandle and            *)
(* gitHubApiRepoName applied to one string                                  *)

Bool(b) == [type |-> "boolean", val |-> b]

TailChars == {"a", "_", "-", "/"}
Tails == UNION {[1..n -> TailChars] : n \in 0..MaxTail}
Heads ==
    {HostLiteral,
     <<"g","i","t","h","u","b","_","c","o","m","/">>,
     <<"x">> \o HostLiteral,
     <<"g","i","t","h","u","b",".","c","o","m">>,
     <<>>}
MatcherInputs == {h \o t : h \in Heads, t \in Tails} \cup {Chars_octocat}

InitMatcher ==
    /\ arg \in {Str(u) : u \in MatcherInputs}
    /\ ret = [type |-> "matcher", canHandle |-> NotCalled, repoName |-> NotCalled]
    /\ url = <<>>
    /\ pc = "idle"
    /\ issued = <<>>
    /\ pending = {}
    /\ answered = {}
    /\ results = <<>>
    /\ completed = 0
    /\ called = FALSE
    /\ firstError = Null
    /\ firstFailed = NotCalled
    /\ userLogins = NotCalled
    /\ inResults = <<>>
    /\ inCompleted = 0
    /\ inCalled = FALSE
    /\ delivered = <<>>
    /\ uncaught = <<>>
    /\ halted = FALSE

CallCanHandle ==
    /\ ret.type = "matcher"
    /\ ret.canHandle = NotCalled
    /\ ret' = [ret EXCEPT !.canHandle = Bool(canHandle(arg.val))]
    /\ UNCHANGED <<fetchVars, arg>>

CallRepoName ==
    /\ ret.type = "matcher"
    /\ ret.repoName = NotCalled
    /\ ret' = [ret EXCEPT !.repoName = gitHubApiRepoName(arg.val)]
    /\ UNCHANGED <<fetchVars, arg>>

NextMatcher == CallCanHandle \/ CallRepoName

SpecMatcher == InitMatcher /\ [][NextMatcher]_vars

-----------------------------------------------------------------------------
(* Specification of the author mapping called on its own: the map callback  *)
(* of fetchAuthors applied to one user record                               *)

NameChars == {"a", "b", " ", "\t"}
Names == {Undefined, Null, NonString} \cup
         {Str(n) : n \in UNION {[1..k -> NameChars] : k \in 0..MaxNameLen}}
Emails == {Null, Str(<<"e">>)}
UserRecords == {[type |-> "object", name |-> n, email |-> e] : n \in Names, e \in Emails}

InitAuthor ==
    /\ arg \in UserRecords
    /\ ret = [type |-> "author", out |-> NotCalled]
    /\ url = <<>>
    /\ pc = "idle"
    /\ issued = <<>>
    /\ pending = {}
    /\ answered = {}
    /\ results = <<>>
    /\ completed = 0
    /\ called = FALSE
    /\ firstError = Null
    /\ firstFailed = NotCalled
    /\ userLogins = NotCalled
    /\ inResults = <<>>
    /\ inCompleted = 0
    /\ inCalled = FALSE
    /\ delivered = <<>>
    /\ uncaught = <<>>
    /\ halted = FALSE

MapUser ==
    /\ ret.type = "author"
    /\ ret.out = NotCalled
    /\ ret' = [ret EXCEPT !.out = AuthorOf(arg)]
    /\ UNCHANGED <<fetchVars, arg>>

NextAuthor == MapUser

SpecAuthor == InitAuthor /\ [][NextAuthor]_vars

-----------------------------------------------------------------------------
(* Specification of sendApiRequest called on its own: one call of           *)
(* sendApiRequest(path, cb) and the response to its request                 *)

RequestPaths ==
    {ReposPrefix \o <<"a","/","b">>,
     ReposPrefix \o <<"a","/","b">> \o ContributorsSuffix,
     ReposPrefix \o <<"a","/","b">> \o ReleasesSuffix,
     UsersPrefix \o Login(1)}
AllResponses == UNION {Responses(b) : b \in {"info", "contributors", "releases", "user"}}

InitRequest ==
    /\ arg \in {[type |-> "call", path |-> p, resp |-> r] : p \in RequestPaths, r \in AllResponses}
    /\ ret = [type |-> "request", requests |-> <<>>, calls |-> <<>>, parsed |-> FALSE]
    /\ url = <<>>
    /\ pc = "idle"
    /\ issued = <<>>
    /\ pending = {}
    /\ answered = {}
    /\ results = <<>>
    /\ completed = 0
    /\ called = FALSE
    /\ firstError = Null
    /\ firstFailed = NotCalled
    /\ userLogins = NotCalled
    /\ inResults = <<>>
    /\ inCompleted = 0
    /\ inCalled = FALSE
    /\ delivered = <<>>
    /\ uncaught = <<>>
    /\ halted = FALSE

\* sendApiRequest(path, cb) hands options.url to request()
CallSendApiRequest ==
    /\ ret.type = "request"
    /\ ret.requests = <<>>
    /\ ret' = [ret EXCEPT !.requests = Append(@, baseUrl \o arg.path)]
    /\ UNCHANGED <<fetchVars, arg>>

\* The callback of request() runs: the body is parsed when there is one,
\* and cb is invoked.
RequestCallback ==
    /\ ret.type = "request"
    /\ Len(ret.requests) = 1
    /\ ret.calls = <<>>
    /\ ret' = [ret EXCEPT !.calls = Append(@, sendApiRequest(arg.path, arg.resp)),
                          !.parsed = ~IsNullish(arg.resp.body)]
    /\ UNCHANGED <<fetchVars, arg>>

NextRequest == CallSendApiRequest \/ RequestCallback

SpecRequest == InitRequest /\ [][NextRequest]_vars

-----------------------------------------------------------------------------
(* Vocabulary of the properties *)

Failed(resp) == resp.error.type # "null" \/ resp.statusCode # 200
Got(branch, index) == \E a \in answered : a.req.branch = branch /\ a.req.index = index
AnswerOf(branch, index) == CHOOSE a \in answered : a.req.branch = branch /\ a.req.index = index
Succeeded(branch, index) == Got(branch, index) /\ ~Failed(AnswerOf(branch, index).resp)
HasFailed(branch, index) == Got(branch, index) /\ Failed(AnswerOf(branch, index).resp)

\* The error a failed request stands for: the transport error, or the status
\* error with the status code and the URL of the request.
ErrorOf(a) ==
    IF a.resp.error.type # "null" THEN a.resp.error
    ELSE [type |-> "error", kind |-> "HttpStatusError",
          statusCode |-> a.resp.statusCode, url |-> baseUrl \o a.req.path]

OuterBranches == {"info", "contributors", "releases"}
Matching == pc = "fetching"
AllAnswered == Matching /\ pending = {}
AllSucceeded == AllAnswered /\ \A a \in answered : ~Failed(a.resp)
AnyFailed == \E a \in answered : Failed(a.resp)

IsRecord(d) == d.record.type = "object"
IsNoRecord(d) == d.record.type = "null"

\* The pattern of urlRegex, stated on the positions of the string: the host
\* literal, n1 >= 1 word characters, a slash, n2 >= 1 word characters.
PrefixAt(u, n1, n2) ==
    /\ Len(HostLiteral) + n1 + 1 + n2 <= Len(u)
    /\ \A k \in 1..Len(HostLiteral) : u[k] = HostLiteral[k]
    /\ \A k \in 1..n1 : u[Len(HostLiteral) + k] \in WordChar
    /\ u[Len(HostLiteral) + n1 + 1] = "/"
    /\ \A k \in 1..n2 : u[Len(HostLiteral) + n1 + 1 + k] \in WordChar
PatternMatch(u) == \E n1 \in 1..Len(u), n2 \in 1..Len(u) : PrefixAt(u, n1, n2)

\* github.com/<owner>/<repo> optionally followed by further path segments:
\* the repo ends at the end of the string or at the slash of the next segment.
FormAt(u, n1, n2) ==
    /\ PrefixAt(u, n1, n2)
    /\ \/ Len(u) = Len(HostLiteral) + n1 + 1 + n2
       \/ u[Len(HostLiteral) + n1 + 2 + n2] = "/"
HasForm(u) == \E n1 \in 1..Len(u), n2 \in 1..Len(u) : FormAt(u, n1, n2)
FormId(u) ==
    LET n == CHOOSE p \in (1..Len(u)) \X (1..Len(u)) : FormAt(u, p[1], p[2])
    IN SubSeq(u, Len(HostLiteral) + 1, Len(HostLiteral) + n[1] + 1 + n[2])

IsSpace(c) == c \in {" ", "\t"}
RECURSIVE Tokens(_)
\* The whitespace-separated tokens of a string.
Tokens(s) ==
    IF s = <<>> THEN <<>>
    ELSE IF IsSpace(s[1]) THEN Tokens(Tail(s))
    ELSE LET n == CHOOSE k \in 1..Len(s) :
                    /\ \A j \in 1..k : ~IsSpace(s[j])
                    /\ (k = Len(s) \/ IsSpace(s[k + 1]))
         IN <<SubSeq(s, 1, n)>> \o Tokens(SubSeq(s, n + 1, Len(s)))

-----------------------------------------------------------------------------
(* Properties *)

\* C1: on a matching URL, once every request issued by GitHub.fetch has
\* received its response, the completion callback has been invoked, with a
\* record and no error or with no record and at least one error.
C1_CompletionReached ==
    AllAnswered =>
        /\ Len(delivered) = 1
        /\ \/ IsRecord(delivered[1]) /\ delivered[1].errors.val = <<>>
           \/ IsNoRecord(delivered[1]) /\ delivered[1].errors.val # <<>>

\* C2: the completion callback is invoked at most once, whatever the order
\* of the responses and however many requests fail.
C2_AtMostOnce == Len(delivered) <= 1

\* C2 witness: all three outer requests failed, so two failures arrived
\* after the completion was delivered.
C2_LateFailures ==
    /\ Len(delivered) = 1
    /\ HasFailed("info", 0) /\ HasFailed("contributors", 0) /\ HasFailed("releases", 0)

\* C3: a delivered record means every request succeeded and comes with no
\* error; once any request failed, whatever is delivered is no record with
\* at least one error.
C3_AllOrNothing ==
    \A k \in 1..Len(delivered) :
        /\ IsRecord(delivered[k]) => AllSucceeded /\ delivered[k].errors.val = <<>>
        /\ AnyFailed => IsNoRecord(delivered[k]) /\ delivered[k].errors.val # <<>>

\* C3 witness: the repo info, the contributors and an author lookup had
\* succeeded when the failure of the releases request was delivered.
C3_PartialDataDropped ==
    /\ Len(delivered) = 1
    /\ IsNoRecord(delivered[1])
    /\ Succeeded("info", 0) /\ Succeeded("contributors", 0) /\ Succeeded("user", 1)
    /\ HasFailed("releases", 0)

InfoNon200 ==
    /\ Got("info", 0)
    /\ AnswerOf("info", 0).resp.error.type = "null"
    /\ AnswerOf("info", 0).resp.statusCode # 200
InfoError == ErrorOf(AnswerOf("info", 0))
OuterErrors == {ErrorOf(a) : a \in {b \in answered : b.req.branch \in OuterBranches /\ Failed(b.resp)}}

\* C4 as stated: after a non-200 response to the repo-info request the
\* completion is (null, [e]) with e the status error of that request.
C4_InfoErrorDelivered ==
    InfoNon200 =>
        /\ Len(delivered) = 1
        /\ IsNoRecord(delivered[1])
        /\ delivered[1].errors.val = <<InfoError>>

\* C4 amended: after a non-200 response to the repo-info request the
\* completion is (null, [e]) with e the error of the outer request whose
\* failure was observed first; e is the status error of the repo-info request
\* when no other outer request has failed.
C4_FirstErrorDelivered ==
    InfoNon200 =>
        /\ Len(delivered) = 1
        /\ IsNoRecord(delivered[1])
        /\ delivered[1].errors.val = <<firstError>>
        /\ firstError \in OuterErrors
        /\ OuterErrors = {InfoError} => delivered[1].errors.val = <<InfoError>>

\* C4 witness: the repo-info request got a non-200 first and its error was
\* delivered, the releases request failed afterwards.
C4_InfoFailedFirst ==
    /\ InfoNon200
    /\ HasFailed("releases", 0)
    /\ Len(delivered) = 1
    /\ delivered[1].errors.val = <<InfoError>>

\* C5: when all requests succeeded and the releases list is not empty, a
\* record is delivered whose version is the name of the first release if
\* that name is not empty and the tag_name of the second release otherwise.
C5_VersionFromReleases ==
    (AllSucceeded /\ Len(AnswerOf("releases", 0).resp.body.val) >= 1) =>
        LET versions == AnswerOf("releases", 0).resp.body.val
        IN /\ Len(delivered) = 1
           /\ IsRecord(delivered[1])
           /\ IF versions[1].name.type = "string" /\ versions[1].name.val # <<>>
              THEN delivered[1].record.version = versions[1].name
              ELSE /\ Len(versions) >= 2
                   /\ delivered[1].record.version = versions[2].tag_name

ContributorsBody == AnswerOf("contributors", 0).resp.body.val
FirstLogins ==
    [i \in 1..(IF Len(ContributorsBody) < 3 THEN Len(ContributorsBody) ELSE 3) |->
        ContributorsBody[i].login]
UserPaths == SubSeq(issued, 4, Len(issued))

\* C6: fetchAuthors is called with the first min(3, n) logins of the
\* contributors list in their order, a users/<login> request is sent for
\* each of them and no other, and a delivered record has at most 3 authors.
C6_FirstThreeLogins ==
    /\ Succeeded("contributors", 0) =>
          /\ userLogins = Arr(FirstLogins)
          /\ UserPaths = [i \in 1..Len(FirstLogins) |-> UsersPrefix \o FirstLogins[i].val]
    /\ ~Succeeded("contributors", 0) => userLogins = NotCalled /\ Len(issued) <= 3
    /\ Len(issued) <= 6
    /\ \A k \in 1..Len(delivered) :
          IsRecord(delivered[k]) =>
              /\ Len(delivered[k].record.authors.val) <= 3
              /\ Len(delivered[k].record.authors.val) = Len(FirstLogins)

\* C6 witness: a contributors list of more than 3 entries, and a record
\* delivered with 3 authors.
C6_LongListTruncated ==
    /\ Succeeded("contributors", 0)
    /\ Len(ContributorsBody) > 3
    /\ Len(delivered) = 1
    /\ IsRecord(delivered[1])
    /\ Len(delivered[1].record.authors.val) = 3

\* C7: for a URL that does not match the pattern, no request is ever issued
\* and the completion callback is never invoked.
C7_NoMatchNoCompletion ==
    ~PatternMatch(url) => issued = <<>> /\ pending = {} /\ delivered = <<>>

\* C7 witness: GitHub.fetch has returned on a URL of another host.
C7_FetchReturned == pc = "returned" /\ url # <<>> /\ ~PatternMatch(url)

\* C8: canHandle is true and the identifier is <owner>/<repo> exactly for
\* the strings github.com/<owner>/<repo> with optional further path
\* segments; for every other string canHandle is false and the identifier
\* is null.
C8_MatcherGrammar ==
    ret.type = "matcher" =>
        /\ ret.canHandle.type = "boolean" => ret.canHandle = Bool(HasForm(arg.val))
        /\ ret.repoName.type # "notcalled" =>
              ret.repoName = IF HasForm(arg.val) THEN Str(FormId(arg.val)) ELSE Null

OctocatRepos == ReposPrefix \o <<"o","c","t","o","c","a","t","/","H","e","l","l","o","-","W","o","r","l","d">>

\* C9: for github.com/octocat/Hello-World the identifier is
\* octocat/Hello-World and the three requests go to repos/octocat/Hello-World,
\* repos/octocat/Hello-World/contributors and repos/octocat/Hello-World/releases.
C9_OctocatPaths ==
    (url = Chars_octocat /\ pc # "idle") =>
        /\ pc = "fetching"
        /\ Len(issued) >= 3
        /\ SubSeq(issued, 1, 3) = <<OctocatRepos, OctocatRepos \o ContributorsSuffix,
                                    OctocatRepos \o ReleasesSuffix>>

IsNullField(v) == v.type \in {"null", "undefined"}
NameTokens(obj) == IF obj.name.type = "string" THEN Tokens(obj.name.val) ELSE <<>>

\* C10: the Author of a user record has the first three whitespace-separated
\* tokens of the name as first, middle and last name; with two tokens the
\* middle name is null, with one token the middle and last names are null,
\* with a name that is absent or no string all three are null; the email is
\* copied.
C10_TokenRule ==
    (ret.type = "author" /\ ret.out.type = "object") =>
        LET t == NameTokens(arg)
            a == ret.out
        IN /\ a.email = arg.email
           /\ Len(t) >= 3 => a.firstName = Str(t[1]) /\ a.middleName = Str(t[2])
                               /\ a.lastName = Str(t[3])
           /\ Len(t) = 2 => a.firstName = Str(t[1]) /\ IsNullField(a.middleName)
                              /\ a.lastName = Str(t[2])
           /\ Len(t) = 1 => a.firstName = Str(t[1]) /\ IsNullField(a.middleName)
                              /\ IsNullField(a.lastName)
           /\ arg.name.type # "string" =>
                 IsNullField(a.firstName) /\ IsNullField(a.middleName) /\ IsNullField(a.lastName)

\* C11: the name and the description of a delivered record are those of
\* the repo-info response, its releaseDate is the date of updated_at, and its
\* url is the homepage when that is a non-empty string and html_url otherwise.
C11_GeneralInfo ==
    \A k \in 1..Len(delivered) :
        IsRecord(delivered[k]) =>
            LET g == AnswerOf("info", 0).resp.body
                rec == delivered[k].record
            IN /\ rec.name = g.name
               /\ rec.description = g.description
               /\ rec.releaseDate = [type |-> "date", of |-> g.updated_at]
               /\ rec.url = IF g.homepage.type = "string" /\ g.homepage.val # <<>>
                            THEN g.homepage ELSE g.html_url

\* C11 witness: a record delivered for a repository whose homepage is the
\* empty string.
C11_EmptyHomepage ==
    /\ Len(delivered) = 1
    /\ IsRecord(delivered[1])
    /\ AnswerOf("info", 0).resp.body.homepage = Str(<<>>)

UserFailed == \E a \in answered : a.req.branch = "user" /\ Failed(a.resp)

\* C12: once a users/<login> lookup has failed, fetchAuthors has called its
\* callback, and the caller of GitHub.fetch has received (null, [error]).
C12_LookupFailureReported ==
    UserFailed =>
        /\ Len(results) >= 2
        /\ results[2].type # "hole"
        /\ Len(delivered) = 1
        /\ IsNoRecord(delivered[1])
        /\ Len(delivered[1].errors.val) = 1

\* C13 as stated: when the completion callback has been invoked, every
\* request of the three outer operations, author lookups included, has been
\* answered.
C13_AfterAllCompleted == Len(delivered) >= 1 => pending = {}

C13_Step ==
    /\ delivered' # delivered =>
          IF IsRecord(delivered'[Len(delivered')])
          THEN pending' = {} /\ completed' = 3
          ELSE firstError.type = "null" /\ firstError'.type = "error"
    /\ (firstError.type = "null" /\ firstError'.type = "error") =>
          delivered' # delivered

\* C13 amended: the completion callback is invoked with a record only in a
\* step after which all three outer operations have completed and no request
\* is in flight; it is invoked with an error in the very step in which the
\* first outer operation reports a failure, and in every such step.
C13_JoinOrFirstFailure ==
    [][C13_Step]_vars

\* C13 witness: a failure has been delivered while requests are in flight.
C13_DeliveredEarly ==
    /\ Len(delivered) = 1
    /\ IsNoRecord(delivered[1])
    /\ pending # {}

FailedBranches ==
    {b \in OuterBranches : HasFailed(b, 0)} \cup
    (IF UserFailed THEN {"contributors"} ELSE {})

\* C14: when two or more outer branches have failed, the callback has
\* received exactly one error, the one of the failure observed first.
C14_FirstFailureDelivered ==
    Cardinality(FailedBranches) >= 2 =>
        /\ Len(delivered) = 1
        /\ firstFailed.type = "failure"
        /\ delivered[1].errors.val = <<firstFailed.err>>

EmptyContributors == Succeeded("contributors", 0) /\ ContributorsBody = <<>>

\* C16: for an empty contributors list fetchAuthors is called with no login,
\* sends no request and reports an empty author list at once; a record
\* delivered for such a repository has authors = [].
C16_EmptyAuthors ==
    EmptyContributors =>
        /\ userLogins = Arr(<<>>)
        /\ Len(issued) = 3
        /\ \A r \in pending : r.branch # "user"
        /\ inCalled
        /\ Len(results) >= 2
        /\ results[2].type = "array"
        /\ results[2].val = <<>>
        /\ \A k \in 1..Len(delivered) :
              IsRecord(delivered[k]) => delivered[k].record.authors = Arr(<<>>)

\* C16 witness: the fetch has completed with a record and no author.
C16_CompletedWithoutAuthors ==
    /\ EmptyContributors
    /\ Len(delivered) = 1
    /\ IsRecord(delivered[1])
    /\ delivered[1].record.authors = Arr(<<>>)

UserAnswerFor(login) == CHOOSE a \in answered : a.req.path = UsersPrefix \o login.val

\* C17: the i-th author of a delivered record is the Author of the response
\* to the lookup of the i-th contributor login.
C17_AuthorsInListOrder ==
    \A k \in 1..Len(delivered) :
        IsRecord(delivered[k]) =>
            LET authors == delivered[k].record.authors.val
            IN /\ Len(authors) = Len(FirstLogins)
               /\ \A i \in 1..Len(FirstLogins) :
                     authors[i] = AuthorOf(UserAnswerFor(FirstLogins[i]).resp.body)

\* C17 witness: a record with three authors, the first two of them unlike.
C17_ThreeAuthors ==
    /\ Len(delivered) = 1
    /\ IsRecord(delivered[1])
    /\ Len(delivered[1].record.authors.val) = 3
    /\ delivered[1].record.authors.val[1] # delivered[1].record.authors.val[2]

\* C18: a fetch on a matching URL starts with exactly three requests, to
\* repos/ paths; every further request is a users/ request, sent only once
\* the contributors request has succeeded; the requests number 3 to 6.
C18_RequestCount ==
    Matching =>
        /\ Len(issued) >= 3 /\ Len(issued) <= 6
        /\ \A i \in 1..Len(issued) :
              IF i <= 3 THEN StartsWith(issued[i], ReposPrefix)
              ELSE StartsWith(issued[i], UsersPrefix)
        /\ answered = {} => Len(issued) = 3
        /\ Len(issued) > 3 => Succeeded("contributors", 0)
        /\ HasFailed("contributors", 0) => Len(issued) = 3
        /\ Cardinality(pending) + Cardinality(answered) = Len(issued)

\* C18 witness: six requests were sent and all are answered.
C18_SixRequests == Matching /\ Len(issued) = 6 /\ pending = {}

\* C19: canHandle answers true exactly for the strings for which
\* gitHubApiRepoName returns an identifier.
C19_MatcherAgreement ==
    (ret.type = "matcher" /\ ret.canHandle.type = "boolean" /\ ret.repoName.type # "notcalled") =>
        (ret.canHandle.val <=> ret.repoName.type = "string")

\* C19 witness: both were called on a string that matches.
C19_BothAccept ==
    /\ ret.type = "matcher"
    /\ ret.canHandle.type = "boolean" /\ ret.canHandle.val
    /\ ret.repoName.type = "string"

====
